---- MODULE Spec2Model ----
(***************************************************************************)
(* The campaign execution engine of the email campaign sender:             *)
(*   supabase/functions/send-campaign-emails/index.ts  (serve,             *)
(*       processEmailChunk, sendEmailWithRetry, triggerNextChunk)          *)
(*   src/pages/Campaigns.tsx  (handleSendCampaign: campaign creation)      *)
(*   src/pages/Reports.tsx    (handleResumeCampaign, confirmResend)        *)
(*                                                                         *)
(* One campaign is modelled.  Every invocation of the edge function is a   *)
(* process that advances one await at a time, so the states between two    *)
(* database calls are states of the model.                                 *)
(*                                                                         *)
(* Text is a sequence of tokens: a token is one character ("x", " "), a    *)
(* placeholder ("{{name}}", ...), a run of characters ("x999") or a whole  *)
(* mail address; CharLen gives the number of characters a token stands for.*)
(***************************************************************************)
EXTENDS Integers, Sequences, FiniteSets, TLC

\* ------------------------------------------------------------------ bounds
\* Largest number of recipients of a campaign whose students are of any profile.
MaxRecipients == 3
\* Largest number of recipients of a campaign of well-formed students.
MaxChain == 5
\* Chunk size: index.ts:255 sets 20; the model scales it down so that
\* campaigns of more than two chunks are within reach.
CHUNK_SIZE == 2
\* Slots for invocations of the edge function that are alive at once.
MaxInv == 3
\* Resume / resend-failed requests a user issues.
MaxUserOps == 1
\* Invocations killed by the host (execution-time limit).
MaxInterrupts == 1
\* Tokens of a content string given to personalizeContent on its own.
MaxContent == 2
\* Times personalizeContent is applied in a row to one content string.
MaxPasses == 2

\* ------------------------------------------------------- program constants
MAX_RETRIES == 2
SUBJECT_MAX == 998
EMAIL_MAX == 254
TIMEOUT_RETRY_DELAY == 1000
RETRY_DELAYS == <<500, 1500>>

\* ----------------------------------------------------------------- text
Placeholders == {"{{name}}", "{{NAME}}", "{{email}}", "{{course}}"}

CharLen(t) ==
    CASE t \in {"{{name}}", "{{NAME}}"} -> 8
      [] t = "{{email}}" -> 9
      [] t = "{{course}}" -> 10
      [] t = "x999" -> 999
      [] t = "a@x.in" -> 6
      [] t = "not-an-email" -> 12
      [] OTHER -> 1

RECURSIVE StrLen(_)
StrLen(s) == IF s = <<>> THEN 0 ELSE CharLen(Head(s)) + StrLen(Tail(s))

RECURSIVE TrimStart(_)
TrimStart(s) == IF s # <<>> /\ Head(s) = " " THEN TrimStart(Tail(s)) ELSE s

RECURSIVE TrimEnd(_)
TrimEnd(s) ==
    IF s # <<>> /\ s[Len(s)] = " " THEN TrimEnd(SubSeq(s, 1, Len(s) - 1)) ELSE s

Trim(s) == TrimEnd(TrimStart(s))

\* String.prototype.replace with a global, case-insensitive pattern for one
\* placeholder: every occurrence in `s` is replaced by `v`, left to right.
RECURSIVE ReplaceAll(_, _, _)
ReplaceAll(s, pats, v) ==
    IF s = <<>> THEN <<>>
    ELSE IF Head(s) \in pats THEN v \o ReplaceAll(Tail(s), pats, v)
    ELSE <<Head(s)>> \o ReplaceAll(Tail(s), pats, v)

\* ------------------------------------------------------------ validation
\* The sample addresses the regular expression of isValidEmail accepts.
WellFormedAddrs == {"a@x.in"}

isValidEmail(email) ==
    /\ email # <<>>
    /\ LET t == Trim(email) IN Len(t) = 1 /\ t[1] \in WellFormedAddrs
    /\ StrLen(email) <= EMAIL_MAX

\* isValidSubject without the trim.
isValidSubjectNoTrim(subject) ==
    /\ subject # <<>>
    /\ StrLen(subject) > 0 /\ StrLen(subject) <= SUBJECT_MAX

isValidSubject(subject) ==
    /\ subject # <<>>
    /\ LET trimmed == Trim(subject)
       IN StrLen(trimmed) > 0 /\ StrLen(trimmed) <= SUBJECT_MAX

isValidFromAddress(fromEmail) == fromEmail # <<>> /\ isValidEmail(fromEmail)

personalizeContent(content, recipient) ==
    IF content = <<>> THEN <<>>
    ELSE ReplaceAll(
           ReplaceAll(
             ReplaceAll(content, {"{{name}}", "{{NAME}}"}, recipient.name),
             {"{{email}}"}, recipient.email),
           {"{{course}}"}, recipient.course)

\* -------------------------------------------------------------- transport
\* An error message is a sequence of words; String.prototype.includes is
\* membership of a word.
Includes(msg, w) == \E k \in 1..Len(msg) : msg[k] = w

\* What client.send can do on one attempt: succeed, or throw one of these.
TransportErrors ==
    { <<"550", "mailbox unavailable">>,
      <<"Connection", "timed out">>,
      <<"connection reset">> }

Outcomes == {<<"ok">>} \cup TransportErrors

\* IsPermanent without the 553 case.
IsPermanentNo553(errorMessage) ==
    \/ Includes(errorMessage, "550")
    \/ Includes(errorMessage, "invalid")
    \/ Includes(errorMessage, "RFC")
    \/ Includes(errorMessage, "5.7.1")

IsPermanent(errorMessage) ==
    \/ Includes(errorMessage, "550")
    \/ Includes(errorMessage, "553")
    \/ Includes(errorMessage, "invalid")
    \/ Includes(errorMessage, "RFC")
    \/ Includes(errorMessage, "5.7.1")

IsTimeout(errorMessage) == Includes(errorMessage, "timed out")

Success == [success |-> TRUE, error |-> <<>>]
Failure(msg) == [success |-> FALSE, error |-> msg]
NoResult == [success |-> FALSE, error |-> <<"(none)">>]

\* RetryIteration going round again after a timeout without counting it.
RetryIterationNoCount(attempt, outcome) ==
    IF outcome = <<"ok">> THEN
        [done |-> TRUE, result |-> Success, delay |-> 0, next |-> attempt]
    ELSE IF IsPermanent(outcome) THEN
        [done |-> TRUE,
         result |-> Failure(<<"Permanent failure:">> \o outcome),
         delay |-> 0, next |-> attempt]
    ELSE IF IsTimeout(outcome) THEN
        [done |-> FALSE, result |-> NoResult,
         delay |-> TIMEOUT_RETRY_DELAY, next |-> attempt]
    ELSE IF attempt < MAX_RETRIES - 1 THEN
        [done |-> FALSE, result |-> NoResult,
         delay |-> RETRY_DELAYS[attempt + 1], next |-> attempt + 1]
    ELSE
        [done |-> TRUE, result |-> Failure(outcome), delay |-> 0,
         next |-> attempt]

\* RetryIteration giving up on the first timeout.
RetryIterationNoTimeoutRetry(attempt, outcome) ==
    IF outcome = <<"ok">> THEN
        [done |-> TRUE, result |-> Success, delay |-> 0, next |-> attempt]
    ELSE IF IsPermanent(outcome) THEN
        [done |-> TRUE,
         result |-> Failure(<<"Permanent failure:">> \o outcome),
         delay |-> 0, next |-> attempt]
    ELSE IF IsTimeout(outcome) THEN
        [done |-> TRUE, result |-> Failure(<<"Skipped:">> \o outcome),
         delay |-> 0, next |-> attempt]
    ELSE IF attempt < MAX_RETRIES - 1 THEN
        [done |-> FALSE, result |-> NoResult,
         delay |-> RETRY_DELAYS[attempt + 1], next |-> attempt + 1]
    ELSE
        [done |-> TRUE, result |-> Failure(outcome), delay |-> 0,
         next |-> attempt]

\* One iteration of the for loop of sendEmailWithRetry: attempt number
\* `attempt` (from 0) ended with `outcome`.  done: the function returns
\* `result`; otherwise it sleeps `delay` ms and the loop goes on with `next`,
\* returning "Max retries exceeded" when `next` reaches MAX_RETRIES.
RetryIteration(attempt, outcome) ==
    IF outcome = <<"ok">> THEN
        [done |-> TRUE, result |-> Success, delay |-> 0, next |-> attempt]
    ELSE IF IsPermanent(outcome) THEN
        [done |-> TRUE,
         result |-> Failure(<<"Permanent failure:">> \o outcome),
         delay |-> 0, next |-> attempt]
    ELSE IF IsTimeout(outcome) THEN
        IF attempt = 0 THEN
            [done |-> FALSE, result |-> NoResult,
             delay |-> TIMEOUT_RETRY_DELAY, next |-> attempt + 1]
        ELSE
            [done |-> TRUE, result |-> Failure(<<"Skipped:">> \o outcome),
             delay |-> 0, next |-> attempt]
    ELSE IF attempt < MAX_RETRIES - 1 THEN
        [done |-> FALSE, result |-> NoResult,
         delay |-> RETRY_DELAYS[attempt + 1], next |-> attempt + 1]
    ELSE
        [done |-> TRUE, result |-> Failure(outcome), delay |-> 0,
         next |-> attempt]

MaxRetriesExceeded == Failure(<<"Max retries exceeded">>)

\* ------------------------------------------------------------------ state
VARIABLES
    students,      \* the selected students, by id: name, email, course
    smtpFrom,      \* smtp_config.from_email
    campaign,      \* the campaigns row
    logs,          \* the email_logs rows of the campaign, by student id
    inv,           \* the invocations of the edge function, by slot
    lastResponse,  \* the HTTP response the function gave last
    cycle,         \* the last accepted initial (non-chunk) submission
    handed,        \* per student: times handed to processEmailChunk in the cycle
    sends,         \* per student: passed to the transport? successful sends
    userOps,       \* resume / resend requests issued
    interrupts,    \* invocations killed by the host
    text           \* a content string, a recipient, and its personalizations

vars == <<students, smtpFrom, campaign, logs, inv, lastResponse,
          cycle, handed, sends, userOps, interrupts,
          text>>

OkStudent == [name |-> <<"x">>, email |-> <<"a@x.in">>, course |-> <<"x">>]
BadAddrStudent ==
    [name |-> <<"x">>, email |-> <<"not-an-email">>, course |-> <<"x">>]
NoNameStudent == [name |-> <<>>, email |-> <<"a@x.in">>, course |-> <<"x">>]
Profiles == {OkStudent, BadAddrStudent, NoNameStudent}

TemplateSubjects == {<<"x">>, <<"{{name}}">>, <<"x999">>, <<" ">>}
FromAddresses == {<<"a@x.in">>, <<>>, <<"not-an-email">>}

NoCampaign ==
    [status |-> "none", total_recipients |-> 0, sent_count |-> 0,
     failed_count |-> 0, pending_count |-> 0]

NoSnap == [sent_count |-> 0, failed_count |-> 0, pending_count |-> 0,
           total_recipients |-> 0]

NotSent == [attempted |-> FALSE, delivered |-> 0]

PendingLog == [status |-> "pending", error |-> <<>>]

NoCycle == [origin |-> "none", recipients |-> <<>>, isRetry |-> FALSE,
            base |-> NoSnap, pendingAtSubmit |-> {}, interrupts |-> 0]

Idle ==
    [pc |-> "idle", origin |-> "none", subject |-> <<>>, recipients |-> <<>>, isRetry |-> FALSE,
     chunked |-> FALSE, chunkIndex |-> 0, totalChunks |-> 0, chunk |-> <<>>,
     valid |-> <<>>, invalid |-> <<>>, k |-> 0, cur |-> 0, kind |-> "none",
     res |-> NoResult, attempt |-> 0, outcomes |-> <<>>, delays |-> <<>>,
     sentCount |-> 0, failedCount |-> 0, snap |-> NoSnap, client |-> "none",
     callee |-> 0]

Slots == 1..MaxInv
Alive(i) == inv[i].pc # "idle"
Quiescent == \A i \in Slots : ~Alive(i)
FreeSlot == CHOOSE i \in Slots : ~Alive(i) /\ \A j \in Slots : j < i => Alive(j)

\* `origin` names the caller (send, resume, resend, chunk); the function does
\* not see it.
Request(origin, subject, recipients, isRetry, chunked, chunkIndex, totalChunks) ==
    [Idle EXCEPT !.pc = "recv", !.origin = origin, !.subject = subject,
                 !.recipients = recipients, !.isRetry = isRetry,
                 !.chunked = chunked, !.chunkIndex = chunkIndex,
                 !.totalChunks = totalChunks]

Recipient(id) ==
    [id |-> id, name |-> students[id].name, email |-> students[id].email,
     course |-> students[id].course]

Min(a, b) == IF a < b THEN a ELSE b
Max(a, b) == IF a > b THEN a ELSE b
Ceil(a, b) == (a + b - 1) \div b
\* Array.prototype.slice(start, end) with 0-based, end-exclusive indices.
Slice(s, start, end) == SubSeq(s, start + 1, Min(end, Len(s)))

RECURSIVE SelectIds(_, _)
\* The ids 1..n whose log status is `status`, in id order.
SelectIds(n, status) ==
    IF n = 0 THEN <<>>
    ELSE SelectIds(n - 1, status)
         \o (IF logs[n].status = status THEN <<n>> ELSE <<>>)

LogsWith(status) == SelectIds(Len(logs), status)
Range(s) == {s[k] : k \in 1..Len(s)}

NoText == [content |-> <<>>, recipient |-> OkStudent, out |-> <<>>]

InitCommon ==
    /\ text = NoText
    /\ students = <<>>
    /\ campaign = NoCampaign
    /\ logs = <<>>
    /\ inv = [i \in Slots |-> Idle]
    /\ lastResponse = [code |-> 0, error |-> "none"]
    /\ cycle = NoCycle
    /\ handed = <<>>
    /\ sends = <<>>
    /\ userOps = 0
    /\ interrupts = 0

Init ==
    /\ InitCommon
    /\ smtpFrom \in FromAddresses

\* ------------------------------------------------------- the web client
\* Campaigns.tsx handleSendCampaign for the selected students and the chosen
\* template: inserts the campaign row and the pending log rows, then invokes
\* the function.  pending_count is not set here: the column defaults to 0.
CreateCampaign(selected, subject) ==
    /\ campaign.status = "none"
    /\ Trim(subject) # <<>>
    /\ Len(selected) > 0
    /\ students' = selected
    /\ campaign' = [status |-> "sending", total_recipients |-> Len(selected),
                    sent_count |-> 0, failed_count |-> 0, pending_count |-> 0]
    /\ logs' = [r \in 1..Len(selected) |-> PendingLog]
    /\ handed' = [r \in 1..Len(selected) |-> 0]
    /\ sends' = [r \in 1..Len(selected) |-> NotSent]
    /\ inv' = [inv EXCEPT ![FreeSlot] =
                 Request("send", subject, [r \in 1..Len(selected) |-> r],
                         FALSE, FALSE, 0, 0)]
    /\ UNCHANGED <<text, smtpFrom, lastResponse, cycle, userOps, interrupts>>

\* The selections the model draws from: every mix of profiles up to
\* MaxRecipients students, and the well-formed students alone up to MaxChain.
Selections ==
    UNION {[1..n -> Profiles] : n \in 1..MaxRecipients}
    \cup {[r \in 1..n |-> OkStudent] : n \in 1..MaxChain}

handleSendCampaign ==
    \E selected \in Selections : \E subject \in TemplateSubjects :
        CreateCampaign(selected, subject)

\* The subject Reports.tsx finds stored for the campaign's template: the
\* Templates page saves any subject that is not the empty string.
StoredSubjects == TemplateSubjects \ {<<>>}

\* Reports.tsx handleResumeCampaign; the button shows while the campaign is
\* `sending` with pending_count > 0.
ResumeRequest ==
    /\ campaign.status = "sending"
    /\ campaign.pending_count > 0
    /\ userOps < MaxUserOps
    /\ \E i \in Slots : ~Alive(i)
    /\ LET pendingLogs == LogsWith("pending") IN
        IF pendingLogs = <<>>
        THEN UNCHANGED inv      \* "No pending emails to resume"
        ELSE \E subject \in StoredSubjects :
               inv' = [inv EXCEPT ![FreeSlot] =
                         Request("resume", subject, pendingLogs, TRUE, FALSE, 0, 0)]
    /\ userOps' = userOps + 1
    /\ UNCHANGED <<text, students, smtpFrom, campaign, logs,
                   lastResponse, cycle, handed, sends, interrupts>>

handleResumeCampaign == Quiescent /\ ResumeRequest

\* Reports.tsx handleResendFailed + confirmResend; the button shows while the
\* campaign is not `sending` and failed_count > 0.
ResendRequest ==
    /\ campaign.status \notin {"none", "sending"}
    /\ campaign.failed_count > 0
    /\ userOps < MaxUserOps
    /\ \E i \in Slots : ~Alive(i)
    /\ LET failedEmails == LogsWith("failed") IN
        /\ failedEmails # <<>>
        /\ logs' = [r \in 1..Len(logs) |->
                      IF logs[r].status = "failed" THEN PendingLog ELSE logs[r]]
        /\ \E subject \in StoredSubjects :
             inv' = [inv EXCEPT ![FreeSlot] =
                       Request("resend", subject, failedEmails, TRUE, FALSE, 0, 0)]
    /\ userOps' = userOps + 1
    /\ UNCHANGED <<text, students, smtpFrom, campaign, lastResponse,
                   cycle, handed, sends, interrupts>>

confirmResend == Quiescent /\ ResendRequest

\* ------------------------------------------------- serve: request handling
Counters ==
    [sent_count |-> campaign.sent_count, failed_count |-> campaign.failed_count,
     pending_count |-> campaign.pending_count,
     total_recipients |-> campaign.total_recipients]

Respond(code, error) == lastResponse' = [code |-> code, error |-> error]

\* InitialUpdate zeroing the counts on every submission.
InitialUpdateReset(c, n, isRetry) ==
    [c EXCEPT !.status = "sending",
              !.pending_count = n,
              !.sent_count = 0,
              !.failed_count = 0]

\* The campaigns update of an accepted initial call: status and pending_count
\* always, sent_count and failed_count only when isRetry is not set.
InitialUpdate(c, n, isRetry) ==
    [c EXCEPT !.status = "sending",
              !.pending_count = n,
              !.sent_count = IF isRetry THEN @ ELSE 0,
              !.failed_count = IF isRetry THEN @ ELSE 0]

\* serve, from the request to its response.  The background task of an
\* accepted request goes on from pc = "begin".
Serve(i) ==
    /\ inv[i].pc = "recv"
    /\ LET r == inv[i] IN
       IF r.subject = <<>> \/ ~isValidSubject(r.subject) THEN
            /\ campaign' = [campaign EXCEPT !.status = "failed"]
            /\ Respond(400, "Campaign blocked: Template subject is empty or invalid")
            /\ inv' = [inv EXCEPT ![i] = Idle]
            /\ UNCHANGED <<text, cycle, handed>>
       ELSE IF Len(r.recipients) = 0 THEN
            /\ Respond(400, "No recipients provided")
            /\ inv' = [inv EXCEPT ![i] = Idle]
            /\ UNCHANGED <<text, campaign, cycle, handed>>
       ELSE IF smtpFrom = <<>> \/ Trim(smtpFrom) = <<>> THEN
            /\ Respond(400, "SMTP configuration error: From email address is required")
            /\ inv' = [inv EXCEPT ![i] = Idle]
            /\ UNCHANGED <<text, campaign, cycle, handed>>
       ELSE IF ~isValidFromAddress(smtpFrom) THEN
            /\ Respond(400, "Invalid From email address in SMTP configuration")
            /\ inv' = [inv EXCEPT ![i] = Idle]
            /\ UNCHANGED <<text, campaign, cycle, handed>>
       ELSE IF r.chunked THEN
            /\ Respond(200, "Processing chunk")
            /\ inv' = [inv EXCEPT ![i] = [r EXCEPT !.pc = "begin",
                                                   !.chunk = r.recipients]]
            /\ UNCHANGED <<text, campaign, cycle, handed>>
       ELSE
            /\ campaign' = InitialUpdate(campaign, Len(r.recipients), r.isRetry)
            /\ Respond(200, "Campaign started")
            /\ cycle' = [origin |-> r.origin, recipients |-> r.recipients,
                         isRetry |-> r.isRetry,
                         base |-> Counters,
                         pendingAtSubmit |-> Range(LogsWith("pending")),
                         interrupts |-> interrupts]
            /\ handed' = [x \in 1..Len(handed) |-> 0]
            /\ inv' = [inv EXCEPT ![i] =
                         [r EXCEPT !.pc = "begin",
                                   !.chunkIndex = 0,
                                   !.totalChunks = Ceil(Len(r.recipients), CHUNK_SIZE),
                                   !.chunk = Slice(r.recipients, 0, CHUNK_SIZE)]]
    /\ UNCHANGED <<text, students, smtpFrom, logs, sends, userOps,
                   interrupts>>

\* ------------------------------------------------------ processEmailChunk
RECURSIVE Filter(_, _)
\* Filter taking every address for valid.
FilterAllValid(ids, want) == IF want THEN ids ELSE <<>>

\* The members of `ids` whose address is valid (want = TRUE) or not, in order.
Filter(ids, want) ==
    IF ids = <<>> THEN <<>>
    ELSE (IF isValidEmail(students[Head(ids)].email) = want
          THEN <<Head(ids)>> ELSE <<>>) \o Filter(Tail(ids), want)

FailedLog(msg) == [status |-> "failed", error |-> msg]
SentLog == [status |-> "sent", error |-> <<>>]

MarkFailed(ids, msg) ==
    [x \in 1..Len(logs) |-> IF x \in Range(ids) THEN FailedLog(msg) ELSE logs[x]]

InvalidEmailFormat == Failure(<<"Invalid email format">>)

\* The state of the invocation when the loop over the invalid recipients has
\* handled number r.k of them.
AfterInvalid(r) ==
    IF r.k < Len(r.invalid) THEN
        [r EXCEPT !.pc = "log", !.k = r.k + 1, !.cur = r.invalid[r.k + 1],
                  !.kind = "invalid", !.res = InvalidEmailFormat,
                  !.snap = NoSnap]
    ELSE IF r.valid = <<>> THEN
        [r EXCEPT !.pc = "after", !.k = 0, !.cur = 0, !.kind = "none",
                  !.res = NoResult, !.snap = NoSnap]
    ELSE
        [r EXCEPT !.pc = "connect", !.k = 0, !.cur = 0, !.kind = "none",
                  !.res = NoResult, !.snap = NoSnap]

\* The state of the invocation when the loop over the valid recipients has
\* handled number r.k of them.
AfterValid(r) ==
    IF r.k < Len(r.valid) THEN
        [r EXCEPT !.pc = "val_begin", !.k = r.k + 1, !.cur = 0,
                  !.kind = "none", !.res = NoResult, !.snap = NoSnap,
                  !.attempt = 0, !.outcomes = <<>>, !.delays = <<>>]
    ELSE
        [r EXCEPT !.pc = "close", !.k = 0, !.cur = 0, !.kind = "none",
                  !.res = NoResult, !.snap = NoSnap, !.attempt = 0,
                  !.outcomes = <<>>, !.delays = <<>>]

\* Entry of processEmailChunk: the checks of the sender address and of the
\* template subject, then the partition of the recipients.
ChunkBegin(i) ==
    /\ inv[i].pc = "begin"
    /\ LET r == inv[i]
           n == Len(r.chunk)
       IN
       /\ handed' = [x \in 1..Len(handed) |->
                       handed[x] + (IF x \in Range(r.chunk) THEN 1 ELSE 0)]
       /\ IF smtpFrom = <<>> \/ Trim(smtpFrom) = <<>> THEN
            /\ logs' = MarkFailed(r.chunk,
                         <<"SMTP configuration error: From email is empty">>)
            /\ inv' = [inv EXCEPT ![i] = [r EXCEPT !.pc = "after",
                                                   !.failedCount = n]]
            /\ UNCHANGED campaign
          ELSE IF ~isValidFromAddress(smtpFrom) THEN
            /\ logs' = MarkFailed(r.chunk,
                         <<"Invalid From address configuration">>)
            /\ inv' = [inv EXCEPT ![i] = [r EXCEPT !.pc = "after",
                                                   !.failedCount = n]]
            /\ UNCHANGED campaign
          ELSE IF r.subject = <<>> \/ ~isValidSubject(r.subject) THEN
            /\ logs' = MarkFailed(r.chunk,
                         <<"Email blocked: Subject cannot be empty">>)
            /\ campaign' =
                 [campaign EXCEPT !.failed_count = @ + n,
                                  !.pending_count = Max(0, @ - n)]
            /\ inv' = [inv EXCEPT ![i] = [r EXCEPT !.pc = "after",
                                                   !.failedCount = n]]
          ELSE
            /\ inv' = [inv EXCEPT ![i] =
                         AfterInvalid([r EXCEPT !.valid = Filter(r.chunk, TRUE),
                                                !.invalid = Filter(r.chunk, FALSE),
                                                !.k = 0])]
            /\ UNCHANGED <<text, logs, campaign>>
    /\ UNCHANGED <<text, students, smtpFrom, lastResponse, cycle, sends,
                   userOps, interrupts>>

\* The email_logs update of the current recipient, and the local tally.
PersistLog(i) ==
    /\ inv[i].pc = "log"
    /\ LET r == inv[i] IN
       /\ logs' = [logs EXCEPT ![r.cur] =
                     IF r.res.success THEN SentLog ELSE FailedLog(r.res.error)]
       /\ inv' = [inv EXCEPT ![i] =
                    [r EXCEPT !.pc = "read",
                              !.sentCount = @ + (IF r.res.success THEN 1 ELSE 0),
                              !.failedCount = @ + (IF r.res.success THEN 0 ELSE 1)]]
    /\ UNCHANGED <<text, students, smtpFrom, campaign, lastResponse,
                   cycle, handed, sends, userOps, interrupts>>

\* The select of the campaign's counters.
ReadCounters(i) ==
    /\ inv[i].pc = "read"
    /\ inv' = [inv EXCEPT ![i] = [@ EXCEPT !.pc = "write", !.snap = Counters]]
    /\ UNCHANGED <<text, students, smtpFrom, campaign, logs,
                   lastResponse, cycle, handed, sends, userOps, interrupts>>

\* The counters written for one recipient from the values read before: the
\* paths that send nothing write failed_count and pending_count only.
CountersAfter(c, snap, kind, success) ==
    IF kind = "result" THEN
        [c EXCEPT !.sent_count = snap.sent_count + (IF success THEN 1 ELSE 0),
                  !.failed_count = snap.failed_count + (IF success THEN 0 ELSE 1),
                  !.pending_count = Max(0, snap.pending_count - 1)]
    ELSE
        [c EXCEPT !.failed_count = snap.failed_count + 1,
                  !.pending_count = Max(0, snap.pending_count - 1)]

\* The campaigns update for the current recipient; the loop then goes on.
WriteCounters(i) ==
    /\ inv[i].pc = "write"
    /\ LET r == inv[i] IN
       /\ campaign' = CountersAfter(campaign, r.snap, r.kind, r.res.success)
       /\ inv' = [inv EXCEPT ![i] =
                    IF r.kind = "invalid" THEN AfterInvalid(r) ELSE AfterValid(r)]
    /\ UNCHANGED <<text, students, smtpFrom, logs, lastResponse, cycle,
                   handed, sends, userOps, interrupts>>

\* new SMTPClient(...)
Connect(i) ==
    /\ inv[i].pc = "connect"
    /\ inv' = [inv EXCEPT ![i] = [@ EXCEPT !.pc = "val_begin", !.k = 1,
                                           !.client = "open"]]
    /\ UNCHANGED <<text, students, smtpFrom, campaign, logs,
                   lastResponse, cycle, handed, sends, userOps, interrupts>>

validateEmailConfig(fromEmail, toEmail, subject) ==
    (IF fromEmail = <<>> \/ Trim(fromEmail) = <<>>
        THEN <<"From email is required">>
        ELSE IF ~isValidEmail(fromEmail) THEN <<"Invalid From address">>
        ELSE <<>>)
    \o (IF ~isValidEmail(toEmail) THEN <<"Invalid To address">> ELSE <<>>)
    \o (IF ~isValidSubject(subject) THEN <<"Invalid or empty Subject">> ELSE <<>>)

SubjectBlocked ==
    Failure(<<"Email blocked: Subject became empty after personalization">>)

\* Personalize without the checks before the send.
PersonalizeNoCheck(i) ==
    /\ inv[i].pc = "val_begin"
    /\ inv' = [inv EXCEPT ![i] =
                 [@ EXCEPT !.pc = "send", !.cur = inv[i].valid[inv[i].k],
                           !.kind = "result", !.attempt = 0]]
    /\ UNCHANGED <<text, students, smtpFrom, campaign, logs,
                   lastResponse, cycle, handed, sends, userOps, interrupts>>

\* The head of one iteration over the valid recipients: personalization and
\* the checks before the send.
Personalize(i) ==
    /\ inv[i].pc = "val_begin"
    /\ LET r == inv[i]
           id == r.valid[r.k]
           personalizedSubject == personalizeContent(r.subject, Recipient(id))
           errors == validateEmailConfig(smtpFrom, students[id].email,
                                         personalizedSubject)
       IN
       inv' = [inv EXCEPT ![i] =
                 IF personalizedSubject = <<>> \/ ~isValidSubject(personalizedSubject)
                 THEN [r EXCEPT !.pc = "log", !.cur = id, !.kind = "blocked",
                                !.res = SubjectBlocked]
                 ELSE IF errors # <<>>
                 THEN [r EXCEPT !.pc = "log", !.cur = id, !.kind = "blocked",
                                !.res = Failure(<<"Validation:">> \o errors)]
                 ELSE [r EXCEPT !.pc = "send", !.cur = id, !.kind = "result",
                                !.attempt = 0]]
    /\ UNCHANGED <<text, students, smtpFrom, campaign, logs,
                   lastResponse, cycle, handed, sends, userOps, interrupts>>

\* One attempt of sendEmailWithRetry: client.send and what the loop does with
\* its outcome.
SendAttemptOf(i, outcomes) ==
    /\ inv[i].pc = "send"
    /\ \E outcome \in outcomes :
        LET r == inv[i]
            it == RetryIteration(r.attempt, outcome)
            hist == [r EXCEPT !.outcomes = Append(@, outcome),
                              !.delays = IF it.delay > 0 THEN Append(@, it.delay)
                                         ELSE @]
        IN
        /\ sends' = [sends EXCEPT ![r.cur] =
                       [attempted |-> TRUE,
                        delivered |-> @.delivered
                                      + (IF outcome = <<"ok">> THEN 1 ELSE 0)]]
        /\ inv' = [inv EXCEPT ![i] =
                     IF it.done
                     THEN [hist EXCEPT !.pc = "log", !.res = it.result]
                     ELSE IF it.next >= MAX_RETRIES
                     THEN [hist EXCEPT !.pc = "log", !.res = MaxRetriesExceeded]
                     ELSE [hist EXCEPT !.attempt = it.next]]
    /\ UNCHANGED <<text, students, smtpFrom, campaign, logs,
                   lastResponse, cycle, handed, userOps, interrupts>>

SendAttempt(i) == SendAttemptOf(i, Outcomes)

\* ConnectionError with the catch block starting one recipient too far.
ConnectionErrorSkipFirst(i) ==
    /\ inv[i].pc \in {"connect", "val_begin"}
    /\ inv' = [inv EXCEPT ![i] = [@ EXCEPT !.pc = "catch",
                                           !.k = inv[i].sentCount + 2]]
    /\ UNCHANGED <<text, students, smtpFrom, campaign, logs,
                   lastResponse, cycle, handed, sends, userOps, interrupts>>

\* An exception escapes the try block: thrown by the constructor of the
\* client, or by an await of the loop before the next recipient is attempted.
\* The catch block goes over validRecipients.slice(sentCount).
ConnectionError(i) ==
    /\ inv[i].pc \in {"connect", "val_begin"}
    /\ inv' = [inv EXCEPT ![i] = [@ EXCEPT !.pc = "catch",
                                           !.k = inv[i].sentCount + 1]]
    /\ UNCHANGED <<text, students, smtpFrom, campaign, logs,
                   lastResponse, cycle, handed, sends, userOps, interrupts>>

SmtpError == <<"SMTP error:", "Connection failed">>

\* CatchMark without the status = pending condition of the update.
CatchMarkUnguarded(i) ==
    /\ inv[i].pc = "catch"
    /\ LET r == inv[i] IN
       IF r.k <= Len(r.valid) THEN
            /\ logs' = [logs EXCEPT ![r.valid[r.k]] = FailedLog(SmtpError)]
            /\ inv' = [inv EXCEPT ![i] = [r EXCEPT !.k = r.k + 1,
                                                   !.failedCount = @ + 1]]
       ELSE
            /\ inv' = [inv EXCEPT ![i] = [r EXCEPT !.pc = "close", !.k = 0]]
            /\ UNCHANGED logs
    /\ UNCHANGED <<text, students, smtpFrom, campaign, lastResponse,
                   cycle, handed, sends, userOps, interrupts>>

\* One iteration of the catch block: the update applies to a row that is
\* still pending; the campaign's counters are not touched.
CatchMark(i) ==
    /\ inv[i].pc = "catch"
    /\ LET r == inv[i] IN
       IF r.k <= Len(r.valid) THEN
            /\ logs' = [logs EXCEPT ![r.valid[r.k]] =
                          IF @.status = "pending" THEN FailedLog(SmtpError) ELSE @]
            /\ inv' = [inv EXCEPT ![i] = [r EXCEPT !.k = r.k + 1,
                                                   !.failedCount = @ + 1]]
       ELSE
            /\ inv' = [inv EXCEPT ![i] = [r EXCEPT !.pc = "close", !.k = 0]]
            /\ UNCHANGED logs
    /\ UNCHANGED <<text, students, smtpFrom, campaign, lastResponse,
                   cycle, handed, sends, userOps, interrupts>>

\* CloseClient leaving the client open.
CloseClientLeak(i) ==
    /\ inv[i].pc = "close"
    /\ inv' = [inv EXCEPT ![i] = [@ EXCEPT !.pc = "after"]]
    /\ UNCHANGED <<text, students, smtpFrom, campaign, logs,
                   lastResponse, cycle, handed, sends, userOps, interrupts>>

\* The finally block: the client is closed when one was created.
CloseClient(i) ==
    /\ inv[i].pc = "close"
    /\ inv' = [inv EXCEPT ![i] =
                 [@ EXCEPT !.pc = "after",
                           !.client = IF @ = "open" THEN "closed" ELSE @]]
    /\ UNCHANGED <<text, students, smtpFrom, campaign, logs,
                   lastResponse, cycle, handed, sends, userOps, interrupts>>

\* ------------------------------------------------------- chunk scheduling
\* supabase.functions.invoke of the function itself for a later chunk.
InvokeChunk(i, recipients, chunkIndex, totalChunks) ==
    /\ \E j \in Slots : ~Alive(j)
    /\ inv' = [inv EXCEPT
                 ![i] = [@ EXCEPT !.pc = "invoke_wait", !.callee = FreeSlot],
                 ![FreeSlot] = Request("chunk", inv[i].subject, recipients, FALSE, TRUE,
                                       chunkIndex, totalChunks)]

\* The recipients triggerNextChunk passes on, or NoChunk when it returns
\* without invoking.
NoChunk == <<0>>
triggerNextChunk(allRecipients, currentChunk, totalChunks) ==
    LET nextChunk == currentChunk + 1
        startIdx == nextChunk * CHUNK_SIZE
    IN  IF nextChunk >= totalChunks THEN NoChunk
        ELSE Slice(allRecipients, startIdx, startIdx + CHUNK_SIZE)

\* AfterChunk dispatching the next chunk before processEmailChunk has returned.
AfterChunkEarly(i) ==
    /\ inv[i].pc \in {"after", "close"}
    /\ LET r == inv[i]
           nextRecipients == Slice(r.recipients, CHUNK_SIZE, CHUNK_SIZE * 2)
       IN
       IF r.chunked THEN
            inv' = [inv EXCEPT ![i] =
                      [r EXCEPT !.pc = IF r.chunkIndex + 1 < r.totalChunks
                                       THEN "requery" ELSE "fin_read"]]
       ELSE IF r.totalChunks > 1 THEN
            IF Len(nextRecipients) > 0
            THEN InvokeChunk(i, nextRecipients, 1, r.totalChunks)
            ELSE inv' = [inv EXCEPT ![i] = Idle]
       ELSE inv' = [inv EXCEPT ![i] = [r EXCEPT !.pc = "fin_read"]]
    /\ UNCHANGED <<text, students, smtpFrom, campaign, logs,
                   lastResponse, cycle, handed, sends, userOps, interrupts>>

\* processEmailChunk has returned to the background task of serve.
AfterChunk(i) ==
    /\ inv[i].pc = "after"
    /\ LET r == inv[i]
           nextRecipients == Slice(r.recipients, CHUNK_SIZE, CHUNK_SIZE * 2)
       IN
       IF r.chunked THEN
            inv' = [inv EXCEPT ![i] =
                      [r EXCEPT !.pc = IF r.chunkIndex + 1 < r.totalChunks
                                       THEN "requery" ELSE "fin_read"]]
       ELSE IF r.totalChunks > 1 THEN
            IF Len(nextRecipients) > 0
            THEN InvokeChunk(i, nextRecipients, 1, r.totalChunks)
            ELSE inv' = [inv EXCEPT ![i] = Idle]
       ELSE inv' = [inv EXCEPT ![i] = [r EXCEPT !.pc = "fin_read"]]
    /\ UNCHANGED <<text, students, smtpFrom, campaign, logs,
                   lastResponse, cycle, handed, sends, userOps, interrupts>>

\* A chunked call with chunks left: the pending logs are queried again, the
\* students looked up, and triggerNextChunk slices the next chunk out of them.
RequeryPending(i) ==
    /\ inv[i].pc = "requery"
    /\ LET r == inv[i]
           pendingStudents == LogsWith("pending")
           next == triggerNextChunk(
                     pendingStudents, r.chunkIndex,
                     Ceil(Len(pendingStudents), CHUNK_SIZE) + r.chunkIndex + 1)
       IN
       IF Len(pendingStudents) > 0 /\ next # NoChunk
       THEN InvokeChunk(i, next, r.chunkIndex + 1,
                        Ceil(Len(pendingStudents), CHUNK_SIZE) + r.chunkIndex + 1)
       ELSE inv' = [inv EXCEPT ![i] = [r EXCEPT !.pc = "fin_read"]]
    /\ UNCHANGED <<text, students, smtpFrom, campaign, logs,
                   lastResponse, cycle, handed, sends, userOps, interrupts>>

\* The invoked call has answered.
InvokeReturn(i) ==
    /\ inv[i].pc = "invoke_wait"
    /\ inv[inv[i].callee].pc # "recv"
    /\ inv' = [inv EXCEPT ![i] =
                 IF @.chunked THEN [@ EXCEPT !.pc = "fin_read", !.callee = 0]
                 ELSE Idle]
    /\ UNCHANGED <<text, students, smtpFrom, campaign, logs,
                   lastResponse, cycle, handed, sends, userOps, interrupts>>

\* finalStatus without the partial case.
finalStatusNoPartial(c) ==
    IF c.failed_count = c.total_recipients THEN "failed" ELSE "sent"

finalStatus(c) ==
    IF c.failed_count = c.total_recipients THEN "failed"
    ELSE IF c.sent_count = c.total_recipients THEN "sent"
    ELSE "partial"

\* FinalizeRead never going on to the status update.
FinalizeReadSkip(i) ==
    /\ inv[i].pc = "fin_read"
    /\ inv' = [inv EXCEPT ![i] = Idle]
    /\ UNCHANGED <<text, students, smtpFrom, campaign, logs,
                   lastResponse, cycle, handed, sends, userOps, interrupts>>

\* "Check if campaign is complete": the select.
FinalizeRead(i) ==
    /\ inv[i].pc = "fin_read"
    /\ inv' = [inv EXCEPT ![i] =
                 IF campaign.pending_count = 0
                 THEN [@ EXCEPT !.pc = "fin_write", !.snap = Counters]
                 ELSE Idle]
    /\ UNCHANGED <<text, students, smtpFrom, campaign, logs,
                   lastResponse, cycle, handed, sends, userOps, interrupts>>

\* "Check if campaign is complete": the update of the status.
FinalizeWrite(i) ==
    /\ inv[i].pc = "fin_write"
    /\ campaign' = [campaign EXCEPT !.status = finalStatus(inv[i].snap)]
    /\ inv' = [inv EXCEPT ![i] = Idle]
    /\ UNCHANGED <<text, students, smtpFrom, logs, lastResponse, cycle,
                   handed, sends, userOps, interrupts>>

\* The host ends a background task (execution-time limit, shutdown).
Interrupt(i) ==
    /\ inv[i].pc \notin {"idle", "recv"}
    /\ interrupts < MaxInterrupts
    /\ interrupts' = interrupts + 1
    /\ inv' = [inv EXCEPT ![i] = Idle]
    /\ UNCHANGED <<text, students, smtpFrom, campaign, logs,
                   lastResponse, cycle, handed, sends, userOps>>

\* ----------------------------------------------------------- specifications
Engine(i) ==
    \/ Serve(i)
    \/ ChunkBegin(i)
    \/ PersistLog(i)
    \/ ReadCounters(i)
    \/ WriteCounters(i)
    \/ Connect(i)
    \/ Personalize(i)
    \/ SendAttempt(i)
    \/ ConnectionError(i)
    \/ CatchMark(i)
    \/ CloseClient(i)
    \/ AfterChunk(i)
    \/ RequeryPending(i)
    \/ InvokeReturn(i)
    \/ FinalizeRead(i)
    \/ FinalizeWrite(i)

\* The deployment the design assumes: a resume or a resend is issued while no
\* invocation is at work on the campaign.
Next ==
    \/ handleSendCampaign
    \/ handleResumeCampaign
    \/ confirmResend
    \/ \E i \in Slots : Engine(i)
    \/ \E i \in Slots : Interrupt(i)

Spec == Init /\ [][Next]_vars

\* The deployment without host kills, every invocation running on to its
\* end: each await of an invocation that is not killed returns.
NextLive ==
    \/ handleSendCampaign
    \/ handleResumeCampaign
    \/ confirmResend
    \/ \E i \in Slots : Engine(i)

SpecLive == Init /\ [][NextLive]_vars /\ \A i \in Slots : WF_vars(Engine(i))

\* processEmailChunk on its own, called for one chunk with any sender
\* address, template subject and recipients.
LongNameStudent ==
    [name |-> <<"x999">>, email |-> <<"a@x.in">>, course |-> <<"x">>]
ChunkProfiles == Profiles \cup {LongNameStudent}
ChunkInputs == UNION {[1..n -> ChunkProfiles] : n \in 1..CHUNK_SIZE}

InitChunk ==
    /\ text = NoText
    /\ smtpFrom \in FromAddresses
    /\ students \in ChunkInputs
    /\ campaign = [status |-> "sending", total_recipients |-> Len(students),
                   sent_count |-> 0, failed_count |-> 0,
                   pending_count |-> Len(students)]
    /\ logs = [r \in 1..Len(students) |-> PendingLog]
    /\ handed = [r \in 1..Len(students) |-> 0]
    /\ sends = [r \in 1..Len(students) |-> NotSent]
    /\ \E subject \in TemplateSubjects \cup {<<>>} :
         inv = [i \in Slots |->
                  IF i = 1
                  THEN [Request("chunk", subject,
                                [r \in 1..Len(students) |-> r],
                                FALSE, TRUE, 0, 1)
                          EXCEPT !.pc = "begin",
                                 !.chunk = [r \in 1..Len(students) |-> r]]
                  ELSE Idle]
    /\ lastResponse = [code |-> 200, error |-> "Processing chunk"]
    /\ cycle = NoCycle
    /\ userOps = 0
    /\ interrupts = 0

NextChunk ==
    \E i \in Slots :
        \/ ChunkBegin(i)
        \/ PersistLog(i)
        \/ ReadCounters(i)
        \/ WriteCounters(i)
        \/ Connect(i)
        \/ Personalize(i)
        \/ SendAttempt(i)
        \/ ConnectionError(i)
        \/ CatchMark(i)
        \/ CloseClient(i)

SpecChunk == InitChunk /\ [][NextChunk]_vars

\* personalizeContent on its own: any content string of up to MaxContent
\* tokens, and recipients whose name or course is free text that may hold a
\* placeholder token; the function is applied to the content, then to its
\* own result.
TextTokens == {"x"} \cup Placeholders

Contents == UNION {[1..n -> TextTokens] : n \in 0..MaxContent}

TextRecipients ==
    {[name |-> n, email |-> <<"a@x.in">>, course |-> c] :
        n \in {<<"x">>, <<>>, <<"{{course}}">>, <<"{{email}}">>},
        c \in {<<"x">>, <<"{{name}}">>}}

InitText ==
    /\ text \in {[content |-> c, recipient |-> r, out |-> <<>>] :
                    c \in Contents, r \in TextRecipients}
    /\ smtpFrom = <<"a@x.in">>
    /\ students = <<>>
    /\ campaign = NoCampaign
    /\ logs = <<>>
    /\ inv = [i \in Slots |-> Idle]
    /\ lastResponse = [code |-> 0, error |-> "none"]
    /\ cycle = NoCycle
    /\ handed = <<>>
    /\ sends = <<>>
    /\ userOps = 0
    /\ interrupts = 0

ApplyPersonalize ==
    /\ Len(text.out) < MaxPasses
    /\ text' = [text EXCEPT !.out =
                  Append(@, personalizeContent(
                              IF @ = <<>> THEN text.content ELSE @[Len(@)],
                              text.recipient))]
    /\ UNCHANGED <<students, smtpFrom, campaign, logs, inv, lastResponse,
                   cycle, handed, sends, userOps, interrupts>>

SpecText == InitText /\ [][ApplyPersonalize]_vars

\* The retry policy on its own: single-chunk campaigns of well-formed
\* students, a valid sender and subject, and a transport that can throw every
\* kind of message the classification tells apart.
WideErrors ==
    TransportErrors
    \cup { <<"553", "relaying denied">>,
           <<"Address", "invalid">>,
           <<"RFC", "violation">>,
           <<"5.7.1", "rejected">>,
           <<"invalid", "timed out">> }

SendAttemptWide(i) == SendAttemptOf(i, {<<"ok">>} \cup WideErrors)

handleSendPlain ==
    \E n \in 1..CHUNK_SIZE : CreateCampaign([r \in 1..n |-> OkStudent], <<"x">>)

InitRetry == InitCommon /\ smtpFrom = <<"a@x.in">>

NextRetry ==
    \/ handleSendPlain
    \/ \E i \in Slots :
        \/ Serve(i)
        \/ ChunkBegin(i)
        \/ Connect(i)
        \/ Personalize(i)
        \/ SendAttemptWide(i)
        \/ PersistLog(i)
        \/ ReadCounters(i)
        \/ WriteCounters(i)
        \/ CloseClient(i)
        \/ AfterChunk(i)
        \/ FinalizeRead(i)
        \/ FinalizeWrite(i)

SpecRetry == InitRetry /\ [][NextRetry]_vars

\* ------------------------------------------------------------------ claims
Count(status) == Cardinality({r \in 1..Len(logs) : logs[r].status = status})

\* C1: in every persisted state of a campaign, sent_count + failed_count +
\* pending_count equals total_recipients.
C1_CountersSum ==
    campaign.status # "none" =>
        campaign.sent_count + campaign.failed_count + campaign.pending_count
            = campaign.total_recipients

\* C2: over the chunk chain of a fresh submission every submitted recipient is
\* handed to processEmailChunk exactly once: never twice, and once the chain
\* has run to its end (no invocation left, none killed) not zero times.
FreshOnly == cycle.origin = "send" /\ userOps = 0

C2_ChunkCompleteness ==
    FreshOnly =>
        /\ \A r \in Range(cycle.recipients) : handed[r] <= 1
        /\ (Quiescent /\ interrupts = 0) =>
                \A r \in Range(cycle.recipients) : handed[r] = 1

\* C3: a fresh submission in which no recipient fails ends, once its chunk
\* chain has run to its end, with pending_count = 0, sent_count = N and
\* status `sent`.
C3_AllSentCompletes ==
    (/\ FreshOnly
     /\ Quiescent
     /\ interrupts = 0
     /\ \A r \in 1..Len(logs) : logs[r].status # "failed")
    => /\ campaign.status = "sent"
       /\ campaign.sent_count = campaign.total_recipients
       /\ campaign.pending_count = 0

CountersAgree ==
    /\ campaign.sent_count = Count("sent")
    /\ campaign.failed_count = Count("failed")
    /\ campaign.pending_count = Count("pending")

\* C4: when the update for a recipient completes (the counters are written,
\* or on the connection-error path the log row), the counters equal the
\* numbers of log rows that are sent, failed and pending.
C4_CountersMatchLogs ==
    [][\A i \in Slots :
         (WriteCounters(i) \/ (CatchMark(i) /\ logs' # logs)) => CountersAgree']_vars

\* The finalization rule as the specification words it.
RuleStatus(failed, sent, total) ==
    IF failed = total THEN "failed" ELSE IF sent = total THEN "sent" ELSE "partial"

\* C5: the status finalization writes is the rule's status for the persisted
\* counters, it is written only while pending_count is 0, and a finalization
\* check that finds pending_count # 0 ends without writing.
C5_FinalizationRule ==
    [][\A i \in Slots :
         /\ FinalizeWrite(i) =>
              /\ campaign.pending_count = 0
              /\ campaign'.status =
                   RuleStatus(campaign.failed_count, campaign.sent_count,
                              campaign.total_recipients)
         /\ (FinalizeRead(i) /\ campaign.pending_count # 0) =>
              /\ inv'[i].pc = "idle"
              /\ campaign' = campaign]_vars

\* C5 witness: finalization has written `partial` for a campaign with sent
\* and failed recipients.
C5_Witness ==
    /\ campaign.status = "partial"
    /\ campaign.pending_count = 0
    /\ campaign.sent_count > 0
    /\ campaign.failed_count > 0

\* C6: a resume request carries exactly the pending log rows, with isRetry;
\* its acceptance keeps sent_count and failed_count and sets pending_count to
\* their number; every recipient the resume chain hands to processEmailChunk
\* is one of them and still pending, and once the chain has run to its end
\* undisturbed every one of them has been handed to it; every outcome is added
\* to the counters.
C6_ResumeProcessesPending ==
    /\ []((cycle.origin = "resume" /\ Quiescent
           /\ interrupts = cycle.interrupts) =>
              \A r \in cycle.pendingAtSubmit : handed[r] = 1)
    /\ [][/\ (handleResumeCampaign /\ Count("pending") > 0) =>
            \E j \in Slots :
                /\ inv[j].pc = "idle"
                /\ inv'[j].pc = "recv"
                /\ inv'[j].isRetry
                /\ ~inv'[j].chunked
                /\ Range(inv'[j].recipients)
                     = {r \in 1..Len(logs) : logs[r].status = "pending"}
                /\ Len(inv'[j].recipients) = Count("pending")
          /\ \A i \in Slots :
            /\ (Serve(i) /\ inv[i].origin = "resume" /\ inv'[i].pc = "begin") =>
                  /\ campaign'.sent_count = campaign.sent_count
                  /\ campaign'.failed_count = campaign.failed_count
                  /\ campaign'.pending_count = Count("pending")
            /\ (ChunkBegin(i) /\ cycle.origin = "resume") =>
                  \A r \in Range(inv[i].chunk) :
                      /\ r \in cycle.pendingAtSubmit
                      /\ logs[r].status = "pending"
            /\ (WriteCounters(i) /\ cycle.origin = "resume") =>
                  /\ campaign'.sent_count = campaign.sent_count
                        + (IF logs[inv[i].cur].status = "sent" THEN 1 ELSE 0)
                  /\ campaign'.failed_count = campaign.failed_count
                        + (IF logs[inv[i].cur].status = "failed" THEN 1 ELSE 0)]_vars

SubjectUnusable(subject) ==
    Trim(subject) = <<>> \/ StrLen(Trim(subject)) > SUBJECT_MAX

\* C7: a request whose template subject is empty or invalid is answered 400
\* and ends there: no log row, no send, no counter changes, and the status
\* of the campaign becomes `failed`.
C7_BadSubjectRejected ==
    [][\A i \in Slots :
         (Serve(i) /\ SubjectUnusable(inv[i].subject)) =>
            /\ lastResponse'.code = 400
            /\ inv'[i].pc = "idle"
            /\ logs' = logs
            /\ sends' = sends
            /\ handed' = handed
            /\ campaign'.pending_count = campaign.pending_count
            /\ campaign'.sent_count = campaign.sent_count
            /\ campaign'.failed_count = campaign.failed_count
            /\ campaign'.status = "failed"]_vars

\* C7 witness: a resume with a blank subject was rejected while recipients
\* were pending.
C7_Witness ==
    /\ lastResponse.code = 400
    /\ lastResponse.error = "Campaign blocked: Template subject is empty or invalid"
    /\ campaign.status = "failed"
    /\ campaign.pending_count > 0
    /\ Count("pending") > 0
    /\ Quiescent

Malformed(r) == students[r].email # <<"a@x.in">>

PastInvalidLoop(r) ==
    \/ r.pc \in {"connect", "val_begin", "send", "catch", "close", "after",
                 "requery", "invoke_wait", "fin_read", "fin_write"}
    \/ r.pc \in {"log", "read", "write"} /\ r.kind # "invalid"

\* C8: a recipient with a malformed address is never passed to the transport;
\* its log row is set to failed with "Invalid email format", and the counter
\* update for it adds 1 to failed_count and takes 1 from pending_count.
C8_InvalidRecipient ==
    /\ [](\A r \in 1..Len(students) :
            Malformed(r) => ~sends[r].attempted /\ sends[r].delivered = 0)
    /\ [](\A i \in Slots :
            /\ inv[i].pc = "send" => ~Malformed(inv[i].cur)
            /\ PastInvalidLoop(inv[i]) =>
                 \A r \in Range(inv[i].chunk) :
                     Malformed(r) =>
                        logs[r] = FailedLog(<<"Invalid email format">>))
    /\ [][\A i \in Slots :
            (WriteCounters(i) /\ Malformed(inv[i].cur)) =>
                /\ logs[inv[i].cur] = FailedLog(<<"Invalid email format">>)
                /\ campaign'.failed_count = campaign.failed_count + 1
                /\ campaign'.pending_count = campaign.pending_count - 1
                /\ campaign'.sent_count = campaign.sent_count]_vars

\* C8 witness: a chunk with a malformed and a well-formed recipient has been
\* processed; the malformed one is failed and counted.
C8_Witness ==
    \E i \in Slots : \E r \in Range(inv[i].chunk) :
        /\ inv[i].pc = "after"
        /\ Malformed(r)
        /\ inv[i].valid # <<>>
        /\ logs[r] = FailedLog(<<"Invalid email format">>)
        /\ campaign.failed_count >= 1

PermanentWords == {"550", "553", "invalid", "RFC"}
Permanent(msg) == \E w \in PermanentWords : Includes(msg, w)

\* C9: an attempt that fails with a permanent message is the last attempt
\* for the recipient, on whichever attempt it comes; the result, and the log
\* row written from it, is a failure prefixed "Permanent failure:".
C9_PermanentNotRetried ==
    \A i \in Slots :
        LET r == inv[i]
            n == Len(r.outcomes)
        IN  /\ r.pc = "send" => \A k \in 1..n : ~Permanent(r.outcomes[k])
            /\ (r.pc \in {"log", "read", "write"} /\ r.kind = "result"
                /\ \E k \in 1..n : Permanent(r.outcomes[k])) =>
                   /\ \A k \in 1..(n - 1) : ~Permanent(r.outcomes[k])
                   /\ r.res = Failure(<<"Permanent failure:">> \o r.outcomes[n])
                   /\ r.pc \in {"read", "write"} =>
                        /\ logs[r.cur].status = "failed"
                        /\ logs[r.cur].error
                             = <<"Permanent failure:">> \o r.outcomes[n]

\* C9 witness: a permanent failure on the second attempt has been logged.
C9_Witness ==
    \E i \in Slots :
        /\ inv[i].pc = "read"
        /\ Len(inv[i].outcomes) = 2
        /\ Permanent(inv[i].outcomes[2])
        /\ logs[inv[i].cur].status = "failed"

TimedOut(msg) == Includes(msg, "timed out") /\ ~Permanent(msg)

\* C10: after a timeout on the first attempt the loop sleeps once and makes
\* the second attempt; when that succeeds the result is a success, exactly
\* one delay was taken, the log row becomes `sent` and the counter update adds
\* 1 to sent_count and nothing to failed_count.
C10_TimeoutThenSuccess ==
    /\ [](\A i \in Slots :
            LET r == inv[i] IN
            /\ (Len(r.outcomes) = 1 /\ TimedOut(r.outcomes[1])) =>
                  r.pc = "send" /\ r.attempt = 1 /\ Len(r.delays) = 1
            /\ (Len(r.outcomes) = 2 /\ TimedOut(r.outcomes[1])
                /\ r.outcomes[2] = <<"ok">>) =>
                  /\ r.pc \in {"log", "read", "write"}
                  /\ r.res = Success
                  /\ Len(r.delays) = 1
                  /\ sends[r.cur].delivered = 1
                  /\ r.pc \in {"read", "write"} => logs[r.cur] = SentLog)
    /\ [][\A i \in Slots :
            (WriteCounters(i) /\ Len(inv[i].outcomes) = 2
             /\ TimedOut(inv[i].outcomes[1]) /\ inv[i].outcomes[2] = <<"ok">>) =>
                /\ campaign'.sent_count = campaign.sent_count + 1
                /\ campaign'.failed_count = campaign.failed_count
                /\ inv'[i].outcomes = <<>>]_vars

\* C10 witness: timeout, then success, logged as sent and about to be counted.
C10_Witness ==
    \E i \in Slots :
        /\ inv[i].pc = "write"
        /\ Len(inv[i].outcomes) = 2
        /\ TimedOut(inv[i].outcomes[1])
        /\ inv[i].outcomes[2] = <<"ok">>
        /\ logs[inv[i].cur].status = "sent"

Returned(r) == r.pc \in {"log", "read", "write"} /\ r.kind = "result"

Timeouts(outcomes) ==
    Cardinality({k \in 1..Len(outcomes) : TimedOut(outcomes[k])})

\* C11: over every sequence of attempt outcomes of a recipient, the result is
\* a "Skipped:" failure exactly when two timeouts have occurred, and the
\* function does not return on the first timeout: one more attempt follows.
C11_TimeoutRetriedOnce ==
    \A i \in Slots :
        LET r == inv[i]
            n == Len(r.outcomes)
        IN  Returned(r) =>
              /\ (r.res.error # <<>> /\ Head(r.res.error) = "Skipped:")
                    <=> Timeouts(r.outcomes) >= 2
              /\ ~(Timeouts(r.outcomes) = 1 /\ TimedOut(r.outcomes[n]))

\* C12: when every attempt has failed and neither a permanent nor a timeout
\* classification ended the loop, the result is "Max retries exceeded".
C12_MaxRetriesExceeded ==
    \A i \in Slots :
        LET r == inv[i]
            n == Len(r.outcomes)
        IN  (/\ Returned(r)
             /\ n = MAX_RETRIES
             /\ \A k \in 1..n : r.outcomes[k] # <<"ok">>
             /\ ~Permanent(r.outcomes[n])
             /\ ~Includes(r.outcomes[n], "timed out")) =>
                r.res = Failure(<<"Max retries exceeded">>)

\* C13: the status leaves `sending` only in a state whose persisted
\* pending_count is 0, on every path of the handler.
C13_LeavesSendingAtZero ==
    [][(campaign.status = "sending" /\ campaign'.status # "sending") =>
          (campaign.pending_count = 0 /\ campaign'.pending_count = 0)]_vars

\* C15: once an initial submission has set it, pending_count never grows from
\* one state to the next.
C15_PendingNeverIncreases ==
    [][cycle.origin # "none" =>
          campaign'.pending_count <= campaign.pending_count]_vars

Processing == {"begin", "connect", "val_begin", "send", "log", "read",
               "write", "catch", "close"}

Active == {i \in Slots : inv[i].pc \in Processing}

\* C16: at most one execution of processEmailChunk is active at a time, and
\* the request for a chunk is issued by an invocation whose own
\* processEmailChunk has returned, while none is active.
C16_OneChunkAtATime ==
    /\ [](Cardinality(Active) <= 1)
    /\ [][\A j \in Slots :
            (inv[j].pc = "idle" /\ inv'[j].pc = "recv" /\ inv'[j].chunked) =>
                /\ Active = {}
                /\ \E i \in Slots :
                     /\ inv[i].pc \in {"after", "requery"}
                     /\ inv'[i].pc = "invoke_wait"
                     /\ inv'[i].callee = j]_vars

\* C16 witness: chunk 2 of a chain is being processed while the invocations
\* of the earlier chunks have returned from processEmailChunk.
C16_Witness ==
    \E i \in Slots :
        /\ inv[i].chunked
        /\ inv[i].chunkIndex = 1
        /\ inv[i].pc = "send"
        /\ \E j \in Slots : inv[j].pc = "invoke_wait" /\ inv[j].callee = i

Terminal(log) == log.status \in {"sent", "failed"}

C19_ConnectionFailureMarksRest ==
    /\ [](\A i \in Slots :
            inv[i].pc = "catch" =>
                \A r \in Range(inv[i].chunk) :
                    logs[r].status = "pending" =>
                        \E k \in inv[i].k..Len(inv[i].valid) :
                            inv[i].valid[k] = r)
    /\ [][\A i \in Slots :
            CatchMark(i) =>
                /\ \A r \in 1..Len(logs) :
                     logs'[r] # logs[r] =>
                        /\ logs[r].status = "pending"
                        /\ logs'[r] = FailedLog(SmtpError)
                /\ inv'[i].pc = "close" =>
                     \A r \in Range(inv[i].chunk) :
                        logs'[r].status # "pending"]_vars

\* C19 witness: the connection failed after the first recipient of a chunk
\* was sent, and the second one was marked failed by the catch block.
C19_Witness ==
    \E i \in Slots :
        /\ inv[i].pc = "close"
        /\ Len(inv[i].valid) = 2
        /\ logs[inv[i].valid[1]].status = "sent"
        /\ logs[inv[i].valid[2]] = FailedLog(SmtpError)

TerminalStatus == {"sent", "failed", "partial"}

SenderUsable == smtpFrom = <<"a@x.in">>

\* C18: with an empty or invalid sender address, once the submission has been
\* dealt with every recipient is failed, and none was passed to the transport.
C18_InvalidSenderFailsChunk ==
    (~SenderUsable /\ lastResponse.code # 0 /\ Quiescent) =>
        \A r \in 1..Len(logs) :
            logs[r].status = "failed" /\ ~sends[r].attempted

\* C20: when processEmailChunk has returned its client is not open; a client
\* is open only between its creation and the finally block; the returns
\* before the creation (invalid sender, blocked subject, no valid recipient)
\* leave no client at all.
C20_ClientClosed ==
    /\ [](\A i \in Slots :
            /\ inv[i].pc = "after" => inv[i].client \in {"none", "closed"}
            /\ inv[i].client = "open" =>
                 inv[i].pc \in {"val_begin", "send", "log", "read", "write",
                                "catch", "close"}
            /\ (/\ inv[i].pc = "after"
                /\ \/ ~SenderUsable
                   \/ SubjectUnusable(inv[i].subject)
                   \/ \A r \in Range(inv[i].chunk) : Malformed(r)) =>
                 inv[i].client = "none")
    /\ [][\A i \in Slots :
            (ChunkBegin(i) /\ inv'[i].pc = "after") =>
                inv'[i].client = "none"]_vars

\* C20 witness: processEmailChunk has returned through the catch block with
\* its client closed.
C20_Witness ==
    \E i \in Slots :
        /\ inv[i].pc = "after"
        /\ inv[i].client = "closed"
        /\ \E r \in Range(inv[i].chunk) : logs[r] = FailedLog(SmtpError)

HasPlaceholder(content) ==
    \E k \in 1..Len(content) : content[k] \in Placeholders

\* C24: personalizing the result of a personalization gives the same string,
\* and a content string without a placeholder token comes back unchanged.
C24_PersonalizeIdempotent ==
    /\ Len(text.out) >= 2 => text.out[2] = text.out[1]
    /\ (Len(text.out) >= 1 /\ ~HasPlaceholder(text.content)) =>
            text.out[1] = text.content

RECURSIVE SubstOnce(_, _)
\* Every placeholder token of `content` replaced by the recipient's field in
\* one pass; the inserted text is not looked at again.
SubstOnce(content, recipient) ==
    IF content = <<>> THEN <<>>
    ELSE (CASE Head(content) \in {"{{name}}", "{{NAME}}"} -> recipient.name
            [] Head(content) = "{{email}}" -> recipient.email
            [] Head(content) = "{{course}}" -> recipient.course
            [] OTHER -> <<Head(content)>>)
         \o SubstOnce(Tail(content), recipient)

\* C25: the output of personalizeContent is the single-pass substitution: a
\* token that stands in the recipient's name, email or course is copied into
\* the output as it is.
C25_PersonalizeNoRecursion ==
    Len(text.out) >= 1 =>
        text.out[1] = SubstOnce(text.content, text.recipient)

\* C26: whatever the outcomes, a recipient gets at most MAX_RETRIES attempts:
\* the loop is at most at its last index while it is attempting, it has
\* returned once MAX_RETRIES outcomes are in, and what it returns is a success
\* or a failure with an error text.
C26_AtMostMaxRetries ==
    \A i \in Slots :
        LET r == inv[i] IN
        /\ Len(r.outcomes) <= MAX_RETRIES
        /\ r.pc = "send" =>
              r.attempt < MAX_RETRIES /\ Len(r.outcomes) = r.attempt
        /\ Len(r.outcomes) = MAX_RETRIES => Returned(r)
        /\ Returned(r) =>
              \/ r.res = Success
              \/ ~r.res.success /\ r.res.error # <<>> /\ r.res # NoResult

\* C26 witness: two failed attempts, neither permanent, and the function has
\* returned a failure.
C26_Witness ==
    \E i \in Slots :
        /\ Returned(inv[i])
        /\ Len(inv[i].outcomes) = MAX_RETRIES
        /\ \A k \in 1..MAX_RETRIES :
              inv[i].outcomes[k] # <<"ok">> /\ ~Permanent(inv[i].outcomes[k])
        /\ ~inv[i].res.success

\* C27: a recipient's terminal log update comes after those of all the
\* recipients before it in the chunk's list.
C27_ListOrder ==
    [][\A i \in Slots :
         (PersistLog(i) \/ CatchMark(i)) =>
            \A p, q \in 1..Len(inv[i].chunk) :
                (p < q /\ logs'[inv[i].chunk[q]] # logs[inv[i].chunk[q]]) =>
                    logs[inv[i].chunk[p]].status # "pending"]_vars

EmptiedFor(subject, id) ==
    LET personalized == Trim(personalizeContent(subject, Recipient(id)))
    IN  personalized = <<>> \/ StrLen(personalized) > SUBJECT_MAX

SubjectEmptied ==
    <<"Email blocked: Subject became empty after personalization">>

\* C28: a valid recipient for whom the personalized subject is empty or too
\* long is not passed to the transport; its log row becomes failed with the
\* reason, its counter update adds 1 to failed_count and takes 1 from
\* pending_count, the loop goes on with the next recipient, and a chunk that
\* ends without a connection error leaves no recipient pending.
C28_BlockedAfterPersonalization ==
    /\ [](\A i \in Slots :
            LET r == inv[i] IN
            /\ \A k \in 1..Len(r.valid) :
                 EmptiedFor(r.subject, r.valid[k]) =>
                    ~sends[r.valid[k]].attempted
            /\ (r.pc \in {"read", "write"} /\ r.kind = "blocked"
                /\ EmptiedFor(r.subject, r.cur)) =>
                    logs[r.cur] = FailedLog(SubjectEmptied)
            /\ (r.pc \in {"log", "read", "write"} /\ r.kind # "invalid"
                /\ EmptiedFor(r.subject, r.cur)) => r.kind = "blocked"
            /\ (r.pc = "after" /\ r.valid # <<>>
                /\ \A x \in Range(r.chunk) : logs[x] # FailedLog(SmtpError)) =>
                    \A x \in Range(r.chunk) : logs[x].status # "pending")
    /\ [][\A i \in Slots :
            (WriteCounters(i) /\ inv[i].kind = "blocked"
             /\ EmptiedFor(inv[i].subject, inv[i].cur)) =>
                /\ campaign'.failed_count = campaign.failed_count + 1
                /\ campaign'.pending_count = campaign.pending_count - 1
                /\ campaign'.sent_count = campaign.sent_count
                /\ inv'[i].pc = IF inv[i].k < Len(inv[i].valid)
                                THEN "val_begin" ELSE "close"]_vars

\* C28 witness: of a chunk of two, the first was blocked after
\* personalization and the second was sent.
C28_Witness ==
    \E i \in Slots :
        /\ inv[i].pc = "after"
        /\ Len(inv[i].valid) = 2
        /\ logs[inv[i].valid[1]] = FailedLog(SubjectEmptied)
        /\ logs[inv[i].valid[2]] = SentLog

\* C23: an accepted initial (non-chunk) submission sets status to sending
\* and pending_count to the number of submitted recipients; without isRetry
\* it sets sent_count and failed_count to 0, with isRetry it leaves both as
\* they were; no step of the engine changes total_recipients.
C23_InitialSubmission ==
    [][\A i \in Slots :
         /\ (Serve(i) /\ ~inv[i].chunked /\ inv'[i].pc = "begin") =>
               /\ campaign'.status = "sending"
               /\ campaign'.pending_count = Len(inv[i].recipients)
               /\ inv[i].isRetry =>
                     /\ campaign'.sent_count = campaign.sent_count
                     /\ campaign'.failed_count = campaign.failed_count
               /\ ~inv[i].isRetry =>
                     /\ campaign'.sent_count = 0
                     /\ campaign'.failed_count = 0
         /\ Engine(i) =>
               campaign'.total_recipients = campaign.total_recipients]_vars

\* C23 witness: a retry submission was accepted for a campaign with a sent
\* e-mail, and its count is still there.
C23_Witness ==
    \E i \in Slots :
        /\ inv[i].pc = "begin"
        /\ ~inv[i].chunked
        /\ inv[i].isRetry
        /\ campaign.status = "sending"
        /\ campaign.sent_count > 0
        /\ campaign.pending_count = Len(inv[i].recipients)

\* C21: when a call has finished its chunk and decides what follows, and a
\* log row of the campaign is still pending, it invokes a next chunk whose
\* recipient list is not empty and holds only recipients with a pending log.
C21_NextChunkFromPending ==
    [][\A i \in Slots :
         (/\ \/ AfterChunk(i) /\ inv'[i].pc # "requery"
             \/ RequeryPending(i)
          /\ Count("pending") > 0) =>
            \E j \in Slots :
                /\ inv[j].pc = "idle"
                /\ inv'[j].pc = "recv"
                /\ inv'[j].recipients # <<>>
                /\ \A r \in Range(inv'[j].recipients) :
                       logs[r].status = "pending"]_vars

\* C22: the resume of a campaign in status sending with no pending log row
\* gives the campaign a terminal status.
C22_ResumeFinalizesFinished ==
    [][(handleResumeCampaign /\ Count("pending") = 0) =>
           campaign'.status \in TerminalStatus]_vars

\* C29: a finalization writes failed only when no log row is sent and sent
\* only when every log row is sent, resend-failed cycles included.
C29_FinalStatusAgreesWithLogs ==
    [][\A i \in Slots :
         FinalizeWrite(i) =>
            /\ campaign'.status = "failed" => Count("sent") = 0
            /\ campaign'.status = "sent" => Count("sent") = Len(logs)]_vars

\* C30: no recipient has more than one successful send performed for it.
C30_AtMostOnceDelivery ==
    \A r \in 1..Len(sends) : sends[r].delivered <= 1

====
